---- MODULE Spec2Model ----
(***************************************************************************)
(* A model of the Seshat VS Code extension: the SeshatRunner subprocess    *)
(* transport (src/src/seshatRunner.ts) and the SeshatController commit     *)
(* workflow built on it (src/unnamed/part_000), together with the part of  *)
(* the webview that owns the displayed status (src/unnamed/part_001).      *)
(*                                                                         *)
(* Every handler runs as one step up to its next await; the continuation   *)
(* after an await (a modal answered, the git child closing, a timer) is a  *)
(* step of its own, as in the JavaScript event loop.                       *)
(***************************************************************************)
EXTENDS Integers, Sequences, FiniteSets, TLC

\* ------------------------------------------------------------ bounds
\* SeshatRunner objects / tool children created in one behaviour.
MaxStarts == 2
\* Continuations pending at the same time: open modals and quick picks,
\* running manual git commits, armed panel-reset timers.
MaxPending == 1

\* `null` for a reference to a runner or to a child process.
NoRef == 0

\* ------------------------------------------------------------ text
\* Strings are sequences of one-character strings, so that trimming, the
\* newline test of respond() and the /commit/i test are computed.
SP == " "
NL == "\n"

IsSpace(c) == c \in {SP, NL}

RECURSIVE TrimStart(_)
TrimStart(s) == IF s # <<>> /\ IsSpace(Head(s)) THEN TrimStart(Tail(s)) ELSE s

RECURSIVE TrimEnd(_)
TrimEnd(s) ==
  IF s # <<>> /\ IsSpace(s[Len(s)]) THEN TrimEnd(SubSeq(s, 1, Len(s) - 1)) ELSE s

\* String.prototype.trim
Trim(s) == TrimEnd(TrimStart(s))

Lower(c) ==
  CASE c = "C" -> "c" [] c = "O" -> "o" [] c = "M" -> "m"
    [] c = "I" -> "i" [] c = "T" -> "t" [] OTHER -> c

ToLower(s) == [i \in 1..Len(s) |-> Lower(s[i])]

HasSubSeq(s, p) ==
  \E i \in 1..(Len(s) - Len(p) + 1) : SubSeq(s, i, i + Len(p) - 1) = p


\* Variant: the test without the i flag.
MatchesCommitCaseSensitive(s) == HasSubSeq(s, <<"c", "o", "m", "m", "i", "t">>)

\* /commit/i.test(message)
MatchesCommit(s) == HasSubSeq(ToLower(s), <<"c", "o", "m", "m", "i", "t">>)

\* text.endsWith('\n')
EndsWithNL(s) == s # <<>> /\ s[Len(s)] = NL

\* ------------------------------------------------------------ inputs
\* Proposed commit messages carried by message_ready events.
EventMsgs == { <<"a">>, <<SP, "b">> }
\* Texts the operator can leave in the message box (messageEdited).
EditMsgs == { <<SP>>, <<"b", SP>> }
\* Prompt texts of confirm_needed events.
Prompts == { <<"C", "o", "M", "m", "i", "t", "?">>, <<"c", "o", "m", "i", "t">> }
\* event.default of confirm_needed: true, false or absent.
ConfirmDefaults == {"true", "false", "absent"}
\* choice_needed payloads: the choices list and the declared default (<<>> when
\* absent or empty, both falsy for the code).
CA == <<"a">>
CB == <<"b", NL>>
CZ == <<"z">>
ChoiceEvents ==
  { [choices |-> <<>>, default |-> <<>>],
    [choices |-> <<CA, CB>>, default |-> <<>>],
    [choices |-> <<CA, CB>>, default |-> CZ] }
\* Exit codes reported by a close: 0, 1, or null (killed by a signal).
ExitCodes == {"0", "1", "null"}
\* Optional text fields of committed (summary) and cancelled (reason).
OptTexts == { <<>>, <<"s">> }
\* Event kinds the controller has no case for, by their effect in the webview.
OtherKinds == {"info", "progress_started", "unknown"}

Y == <<"y">>
N == <<"n">>

VARIABLES
  hasWorkspace,                 \* vscode.workspace.workspaceFolders?.[0] exists
  disposed,                     \* SeshatController.dispose() has run
  panel,                        \* this.panel and what its webview shows
  runner,                       \* this.runner
  runnerListeners,              \* this.runnerListeners (the runner they are on)
  workspacePath,                \* this.workspacePath is set
  suggestedMessage,
  editedMessage,
  hasMessageReady,
  waitingForCommitConfirmation,
  replacingWithManualGitCommit,
  sawTerminalEvent,
  runners,                      \* the SeshatRunner objects
  children,                     \* the tool child processes
  nextRunner,                   \* SeshatRunner objects constructed
  nextChild,                    \* tool children spawned
  prompts,                      \* pending showWarningMessage / showQuickPick
  gits,                         \* running manual git commit children
  timers,                       \* pending schedulePanelReset timers
  fx                            \* what the last step did, in program order

session == <<suggestedMessage, editedMessage, hasMessageReady,
             waitingForCommitConfirmation, replacingWithManualGitCommit,
             sawTerminalEvent>>

ctl == <<hasWorkspace, disposed, panel, runner, runnerListeners, workspacePath,
         suggestedMessage, editedMessage, hasMessageReady,
         waitingForCommitConfirmation, replacingWithManualGitCommit,
         sawTerminalEvent, prompts, gits, timers>>

vars == <<hasWorkspace, disposed, panel, runner, runnerListeners, workspacePath,
          suggestedMessage, editedMessage, hasMessageReady,
          waitingForCommitConfirmation, replacingWithManualGitCommit,
          sawTerminalEvent, runners, children, nextRunner, nextChild,
          prompts, gits, timers, fx>>

\* One outward effect of a step: an instruction to the Display, a notification,
\* a call on a runner, a spawn, a prompt opened, a timer armed.
Fx(op, n, s, t, u) == [op |-> op, n |-> n, s |-> s, t |-> t, u |-> u]

Ids == 1..MaxStarts

\* ------------------------------------------------------------ SeshatRunner
NewRunner == [process |-> NoRef, readers |-> NoRef, attached |-> FALSE]
NoChild == [state |-> "none", killed |-> FALSE, writable |-> FALSE, owner |-> NoRef]

\* this.process !== null && !this.process.killed
isRunning(r) ==
  runners[r].process # NoRef /\ ~children[runners[r].process].killed

\* respond(): the guard of the write
CanRespond(r) ==
  /\ runners[r].process # NoRef
  /\ ~children[runners[r].process].killed
  /\ children[runners[r].process].writable


\* Variant: the newline appended without looking at the text.
PayloadAlwaysNewline(text) == Append(text, NL)

\* respond(): the payload written
Payload(text) == IF EndsWithNL(text) THEN text ELSE Append(text, NL)

\* respond(text) on runner r, as an effect: the result and what was written.
respond(r, text) ==
  IF CanRespond(r)
  THEN Fx("respond", r, "true", text, Payload(text))
  ELSE Fx("respond", r, "false", text, <<>>)

\* this.runner?.respond(text)
RunnerRespond(text) == IF runner = NoRef THEN <<>> ELSE << respond(runner, text) >>

\* run(): the child spawned for runner r under id c, readers on its streams.
Spawned(rs, r, c) == [rs EXCEPT ![r].process = c, ![r].readers = c]
LiveChild(r) == [state |-> "live", killed |-> FALSE, writable |-> TRUE, owner |-> r]

\* kill(): the signal is delivered unless the child is already gone
\* (ChildProcess.kill() then returns false and leaves `killed` unset).
kill(cs, r, delivered) ==
  IF runners[r].process # NoRef /\ ~cs[runners[r].process].killed /\ delivered
  THEN [cs EXCEPT ![runners[r].process].killed = TRUE]
  ELSE cs

\* child.on('close'): cleanupReaders(); this.process = null
Closed(rs, c) ==
  LET r == children[c].owner IN [rs EXCEPT ![r].process = NoRef, ![r].readers = NoRef]

\* ------------------------------------------------------------ Display
\* The panel is closed, or open and showing a status and possibly the
\* commit-action controls.
ClosedPanel == [open |-> FALSE, status |-> "idle", actions |-> FALSE]
FreshPanel == [open |-> TRUE, status |-> "idle", actions |-> FALSE]

\* this.panel?.<call>: the call is made only on an open panel.
OnPanel(p, e) == IF p.open THEN << e >> ELSE <<>>

\* webview: message.type === 'status'
SetStatus(p, s) == IF p.open THEN [p EXCEPT !.status = s] ELSE p

\* webview: message.type === 'show-commit-actions'
ShowCommitActions(p, visible) == IF p.open THEN [p EXCEPT !.actions = visible] ELSE p

\* webview: resetView()
ResetView(p) ==
  IF p.open THEN [p EXCEPT !.status = "idle", !.actions = FALSE] ELSE p

\* webview: message.type === 'seshat-event', what the event kind does to the
\* status line and the controls.
PostSeshatEvent(p, kind) ==
  IF ~p.open THEN p
  ELSE CASE kind = "progress_started" -> [p EXCEPT !.status = "running"]
         [] kind = "error" -> [p EXCEPT !.status = "error"]
         [] kind = "success" -> [p EXCEPT !.status = "success"]
         [] kind = "committed" -> [p EXCEPT !.status = "success", !.actions = FALSE]
         [] kind = "cancelled" -> [p EXCEPT !.status = "error", !.actions = FALSE]
         [] OTHER -> p

\* ------------------------------------------------------------ controller
\* cleanupRunner(): the listeners come off this.runner when both references
\* are set; both are cleared either way.
cleanupRunner(rs, rn, ls) ==
  IF rn # NoRef /\ ls = rn THEN [rs EXCEPT ![rn].attached = FALSE] ELSE rs

\* Continuations the controller is waiting for.
Pending == Len(prompts) + Len(gits) + timers

Init ==
  /\ hasWorkspace \in BOOLEAN
  /\ disposed = FALSE
  /\ panel = ClosedPanel
  /\ runner = NoRef
  /\ runnerListeners = NoRef
  /\ workspacePath = FALSE
  /\ suggestedMessage = <<>>
  /\ editedMessage = <<>>
  /\ hasMessageReady = FALSE
  /\ waitingForCommitConfirmation = FALSE
  /\ replacingWithManualGitCommit = FALSE
  /\ sawTerminalEvent = FALSE
  /\ runners = [r \in Ids |-> NewRunner]
  /\ children = [c \in Ids |-> NoChild]
  /\ nextRunner = 0
  /\ nextChild = 0
  /\ prompts = <<>>
  /\ gits = <<>>
  /\ timers = 0
  /\ fx = <<>>

\* startCommit() without a workspace folder
StartNoWorkspace ==
  /\ ~disposed
  /\ ~hasWorkspace
  /\ fx' = << Fx("notify", NoRef, "error:noWorkspace", <<>>, <<>>) >>
  /\ UNCHANGED <<ctl, runners, children, nextRunner, nextChild>>


\* Variant: the session reset placed before the isRunning() test.
StartRejectedResetsSession ==
  /\ ~disposed
  /\ hasWorkspace
  /\ runner # NoRef /\ isRunning(runner)
  /\ hasMessageReady' = FALSE
  /\ waitingForCommitConfirmation' = FALSE
  /\ fx' = OnPanel(panel, Fx("reveal", NoRef, "", <<>>, <<>>))
           \o << Fx("notify", NoRef, "info:alreadyRunning", <<>>, <<>>) >>
  /\ UNCHANGED <<hasWorkspace, disposed, panel, runner, runnerListeners, workspacePath,
                 suggestedMessage, editedMessage, replacingWithManualGitCommit,
                 sawTerminalEvent, prompts, gits, timers, runners, children,
                 nextRunner, nextChild>>

\* startCommit() while this.runner?.isRunning()
StartRejected ==
  /\ ~disposed
  /\ hasWorkspace
  /\ runner # NoRef /\ isRunning(runner)
  /\ fx' = OnPanel(panel, Fx("reveal", NoRef, "", <<>>, <<>>))
           \o << Fx("notify", NoRef, "info:alreadyRunning", <<>>, <<>>) >>
  /\ UNCHANGED <<ctl, runners, children, nextRunner, nextChild>>

\* startCommit() starting a workflow; runner.run() returns or throws
StartAccepted(throws) ==
  /\ ~disposed
  /\ hasWorkspace
  /\ ~(runner # NoRef /\ isRunning(runner))
  /\ nextRunner < MaxStarts
  /\ LET r == nextRunner + 1
         c == nextChild + 1
         created == IF panel.open THEN <<>>
                    ELSE << Fx("createPanel", NoRef, "", <<>>, <<>>) >>
         p0 == IF panel.open THEN panel ELSE FreshPanel
         p1 == SetStatus(ResetView(p0), "running")
         attached == [runners EXCEPT ![r].attached = TRUE]
         head == created
                 \o << Fx("reveal", NoRef, "", <<>>, <<>>),
                       Fx("reset", NoRef, "", <<>>, <<>>),
                       Fx("setStatus", NoRef, "running", <<>>, <<>>) >>
     IN /\ workspacePath' = TRUE
        /\ suggestedMessage' = <<>>
        /\ editedMessage' = <<>>
        /\ hasMessageReady' = FALSE
        /\ waitingForCommitConfirmation' = FALSE
        /\ replacingWithManualGitCommit' = FALSE
        /\ sawTerminalEvent' = FALSE
        /\ nextRunner' = r
        /\ IF throws
           THEN /\ panel' = SetStatus(p1, "error")
                /\ runners' = cleanupRunner(attached, r, r)
                /\ runner' = NoRef
                /\ runnerListeners' = NoRef
                /\ UNCHANGED <<children, nextChild>>
                /\ fx' = head
                         \o << Fx("setStatus", NoRef, "error", <<>>, <<>>),
                               Fx("notify", NoRef, "error:startFailed", <<>>, <<>>) >>
           ELSE /\ panel' = PostSeshatEvent(p1, "step")
                /\ runners' = Spawned(attached, r, c)
                /\ children' = [children EXCEPT ![c] = LiveChild(r)]
                /\ nextChild' = c
                /\ runner' = r
                /\ runnerListeners' = r
                /\ fx' = head \o << Fx("spawn", c, "tool", <<>>, <<>>),
                                   Fx("post", NoRef, "step", <<>>, <<>>) >>
  /\ UNCHANGED <<hasWorkspace, disposed, prompts, gits, timers>>

StartCommit ==
  \/ StartNoWorkspace
  \/ StartRejected
  \/ \E throws \in BOOLEAN : StartAccepted(throws)

\* stopRunner(): kill a running runner, then cleanupRunner().
stopRunnerFx ==
  IF runner # NoRef /\ isRunning(runner)
  THEN << Fx("kill", runners[runner].process, "", <<>>, <<>>) >>
  ELSE <<>>

\* The controller kills only a child that has not reported close, and close
\* follows exit: the signal is taken as delivered.
stopRunnerChildren ==
  IF runner # NoRef /\ isRunning(runner) THEN kill(children, runner, TRUE) ELSE children

\* The operator closes the panel: panel.onDidDispose.
PanelDispose ==
  /\ panel.open
  /\ panel' = ClosedPanel
  /\ children' = stopRunnerChildren
  /\ runners' = cleanupRunner(runners, runner, runnerListeners)
  /\ runner' = NoRef
  /\ runnerListeners' = NoRef
  /\ fx' = stopRunnerFx
  /\ UNCHANGED <<hasWorkspace, disposed, workspacePath, session, nextRunner, nextChild,
                 prompts, gits, timers>>

\* SeshatController.dispose(): stopRunner(), then the panel is disposed (its
\* onDidDispose runs stopRunner() again, on no runner), then the command.
Dispose ==
  /\ ~disposed
  /\ disposed' = TRUE
  /\ panel' = ClosedPanel
  /\ children' = stopRunnerChildren
  /\ runners' = cleanupRunner(runners, runner, runnerListeners)
  /\ runner' = NoRef
  /\ runnerListeners' = NoRef
  /\ fx' = stopRunnerFx
  /\ UNCHANGED <<hasWorkspace, workspacePath, session, nextRunner, nextChild,
                 prompts, gits, timers>>

\* ------------------------------------------------------------ tool output
\* handleSeshatEvent, first statement: this.panel?.postSeshatEvent(event), the
\* event handed to the Display as it arrived.
\* Variant: only the kinds the controller knows are forwarded.
ForwardKnownKinds(kind, text) ==
  IF kind = "unknown" THEN <<>>
  ELSE OnPanel(panel, Fx("post", NoRef, kind, text, <<>>))

Forward(kind, text) == OnPanel(panel, Fx("post", NoRef, kind, text, <<>>))

\* A line of child c reaches its runner while the readers are on c's streams.
Reads(c) ==
  /\ children[c].state = "live"
  /\ runners[children[c].owner].readers = c

\* Variant: cleanupRunner() leaves the listeners on the runner.
HeardAfterRelease(c) == Reads(c)

\* The runner's emit reaches the controller's listeners only while attached.
Heard(c) == Reads(c) /\ runners[children[c].owner].attached

\* An event, stderr line or error of a runner nobody listens to.
Unheard(c) ==
  /\ children[c].state = "live"
  /\ ~runners[children[c].owner].attached
  /\ fx' = <<>>
  /\ UNCHANGED <<ctl, runners, children, nextRunner, nextChild>>


\* Variant: the operator's edit survives a new proposal.
ToolMessageReadyKeepsEdit(c, m) ==
  /\ Heard(c)
  /\ suggestedMessage' = m
  /\ editedMessage' = IF editedMessage = <<>> THEN m ELSE editedMessage
  /\ hasMessageReady' = TRUE
  /\ panel' = PostSeshatEvent(panel, "message_ready")
  /\ fx' = Forward("message_ready", m)
           \o OnPanel(panel, Fx("setCommitMessage", NoRef, "", m, m))
  /\ UNCHANGED <<hasWorkspace, disposed, runner, runnerListeners, workspacePath,
                 waitingForCommitConfirmation, replacingWithManualGitCommit,
                 sawTerminalEvent, runners, children, nextRunner, nextChild,
                 prompts, gits, timers>>

\* handleSeshatEvent -> handleMessageReady
ToolMessageReady(c, m) ==
  /\ Heard(c)
  /\ suggestedMessage' = m
  /\ editedMessage' = m
  /\ hasMessageReady' = TRUE
  /\ panel' = PostSeshatEvent(panel, "message_ready")
  /\ fx' = Forward("message_ready", m)
           \o OnPanel(panel, Fx("setCommitMessage", NoRef, "", m, m))
  /\ UNCHANGED <<hasWorkspace, disposed, runner, runnerListeners, workspacePath,
                 waitingForCommitConfirmation, replacingWithManualGitCommit,
                 sawTerminalEvent, runners, children, nextRunner, nextChild,
                 prompts, gits, timers>>

\* handleConfirmNeeded: the classification of the prompt
isCommitConfirmation(prompt) == hasMessageReady /\ MatchesCommit(prompt)

\* handleSeshatEvent -> handleConfirmNeeded, up to the await of the modal
ToolConfirmNeeded(c, prompt, def) ==
  /\ Heard(c)
  /\ IF isCommitConfirmation(prompt)
     THEN /\ waitingForCommitConfirmation' = TRUE
          /\ panel' = ShowCommitActions(PostSeshatEvent(panel, "confirm_needed"), TRUE)
          /\ fx' = Forward("confirm_needed", prompt)
                   \o OnPanel(panel, Fx("showCommitActions", NoRef, "true", prompt, <<>>))
          /\ UNCHANGED prompts
     ELSE /\ Pending < MaxPending
          /\ prompts' = Append(prompts, [kind |-> "confirm", from |-> children[c].owner,
                                         default |-> def, choices |-> <<>>])
          /\ panel' = PostSeshatEvent(panel, "confirm_needed")
          /\ fx' = Forward("confirm_needed", prompt)
                   \o << Fx("modal", NoRef, def, prompt, <<>>) >>
          /\ UNCHANGED waitingForCommitConfirmation
  /\ UNCHANGED <<hasWorkspace, disposed, runner, runnerListeners, workspacePath,
                 suggestedMessage, editedMessage, hasMessageReady,
                 replacingWithManualGitCommit, sawTerminalEvent, runners, children,
                 nextRunner, nextChild, gits, timers>>

\* handleSeshatEvent -> handleChoiceNeeded, up to the await of the quick pick
ToolChoiceNeeded(c, ev) ==
  /\ Heard(c)
  /\ IF Len(ev.choices) = 0
     THEN /\ fx' = Forward("choice_needed", ev.default)
          /\ UNCHANGED prompts
     ELSE /\ Pending < MaxPending
          /\ prompts' = Append(prompts, [kind |-> "choice", from |-> children[c].owner,
                                         default |-> ev.default, choices |-> ev.choices])
          /\ fx' = Forward("choice_needed", ev.default)
                   \o << Fx("quickPick", NoRef, "", ev.choices, ev.default) >>
  /\ panel' = PostSeshatEvent(panel, "choice_needed")
  /\ UNCHANGED <<hasWorkspace, disposed, runner, runnerListeners, workspacePath, session,
                 runners, children, nextRunner, nextChild, gits, timers>>

\* event.summary || 'Commit realizado'
DefaultSummary == <<"d">>

\* Variant: no default text for an absent summary.
SummaryTextAsSent(summary) == summary

SummaryText(summary) == IF summary = <<>> THEN DefaultSummary ELSE summary

\* typeof event.reason === 'string' ? event.reason : 'sem motivo informado'
NoReason == <<"r">>
ReasonText(reason) == IF reason = <<>> THEN NoReason ELSE reason

\* handleSeshatEvent -> handleCommitted
ToolCommitted(c, summary) ==
  /\ Heard(c)
  /\ Pending < MaxPending
  /\ sawTerminalEvent' = TRUE
  /\ waitingForCommitConfirmation' = FALSE
  /\ hasMessageReady' = FALSE
  /\ panel' = SetStatus(ShowCommitActions(PostSeshatEvent(panel, "committed"), FALSE),
                        "success")
  /\ timers' = timers + 1
  /\ fx' = Forward("committed", summary)
           \o OnPanel(panel, Fx("showCommitActions", NoRef, "false", <<>>, <<>>))
           \o OnPanel(panel, Fx("setStatus", NoRef, "success", SummaryText(summary), <<>>))
           \o << Fx("notify", NoRef, "info:committed", SummaryText(summary), <<>>),
                 Fx("timer", NoRef, "", <<>>, <<>>) >>
  /\ UNCHANGED <<hasWorkspace, disposed, runner, runnerListeners, workspacePath,
                 suggestedMessage, editedMessage, replacingWithManualGitCommit,
                 runners, children, nextRunner, nextChild, prompts, gits>>

\* handleSeshatEvent -> handleCancelled
ToolCancelled(c, reason) ==
  /\ Heard(c)
  /\ sawTerminalEvent' = TRUE
  /\ waitingForCommitConfirmation' = FALSE
  /\ hasMessageReady' = FALSE
  /\ LET p1 == ShowCommitActions(PostSeshatEvent(panel, "cancelled"), FALSE)
         head == Forward("cancelled", reason)
                 \o OnPanel(panel, Fx("showCommitActions", NoRef, "false", <<>>, <<>>))
     IN IF replacingWithManualGitCommit
        THEN /\ panel' = p1
             /\ fx' = head
        ELSE /\ panel' = SetStatus(p1, "error")
             /\ fx' = head
                      \o OnPanel(panel, Fx("setStatus", NoRef, "error", <<>>, <<>>))
                      \o << Fx("notify", NoRef, "warn:cancelled", ReasonText(reason), <<>>) >>
  /\ UNCHANGED <<hasWorkspace, disposed, runner, runnerListeners, workspacePath,
                 suggestedMessage, editedMessage, replacingWithManualGitCommit,
                 runners, children, nextRunner, nextChild, prompts, gits, timers>>

\* handleSeshatEvent, case 'error'
ToolError(c) ==
  /\ Heard(c)
  /\ LET p1 == PostSeshatEvent(panel, "error")
     IN IF replacingWithManualGitCommit
        THEN /\ panel' = p1
             /\ fx' = Forward("error", <<>>)
        ELSE /\ panel' = SetStatus(p1, "error")
             /\ fx' = Forward("error", <<>>)
                      \o OnPanel(panel, Fx("setStatus", NoRef, "error", <<>>, <<>>))
                      \o << Fx("notify", NoRef, "error:event", <<>>, <<>>) >>
  /\ UNCHANGED <<hasWorkspace, disposed, runner, runnerListeners, workspacePath, session,
                 runners, children, nextRunner, nextChild, prompts, gits, timers>>

\* handleSeshatEvent, default: the event is only forwarded
ToolOther(c, kind) ==
  /\ Heard(c)
  /\ panel' = PostSeshatEvent(panel, kind)
  /\ fx' = Forward(kind, <<>>)
  /\ UNCHANGED <<hasWorkspace, disposed, runner, runnerListeners, workspacePath, session,
                 runners, children, nextRunner, nextChild, prompts, gits, timers>>

\* listeners.stderr: a non-empty stderr line becomes a warning in the log
ToolStderr(c) ==
  /\ Heard(c)
  /\ panel' = PostSeshatEvent(panel, "warning")
  /\ fx' = Forward("warning", <<>>)
  /\ UNCHANGED <<hasWorkspace, disposed, runner, runnerListeners, workspacePath, session,
                 runners, children, nextRunner, nextChild, prompts, gits, timers>>

\* child.on('error') -> listeners.error
ChildError(c) ==
  /\ children[c].state = "live"
  /\ runners[children[c].owner].attached
  /\ panel' = SetStatus(panel, "error")
  /\ fx' = OnPanel(panel, Fx("setStatus", NoRef, "error", <<>>, <<>>))
           \o << Fx("notify", NoRef, "error:process", <<>>, <<>>) >>
  /\ UNCHANGED <<hasWorkspace, disposed, runner, runnerListeners, workspacePath, session,
                 runners, children, nextRunner, nextChild, prompts, gits, timers>>

\* The tool closes its standard input (or exits): stdin.writable becomes false.
StdinClose(c) ==
  /\ children[c].state = "live"
  /\ children[c].writable
  /\ children' = [children EXCEPT ![c].writable = FALSE]
  /\ fx' = <<>>
  /\ UNCHANGED <<ctl, runners, nextRunner, nextChild>>

\* handleRunnerClose: the status a close sets when it decides the outcome
CloseStatus(code) == IF code = "0" THEN "success" ELSE "error"

\* Variant: the fallback flag forgotten.
CloseDecidesIgnoringFallback == ~sawTerminalEvent

CloseDecides == ~sawTerminalEvent /\ ~replacingWithManualGitCommit

\* child.on('close') and, when listened to, handleRunnerClose(code)
ChildClose(c, code) ==
  /\ children[c].state = "live"
  /\ LET r == children[c].owner
         rs1 == Closed(runners, c)
         p1 == IF CloseDecides THEN SetStatus(panel, CloseStatus(code)) ELSE panel
     IN /\ children' = [children EXCEPT ![c].state = "closed", ![c].writable = FALSE]
        /\ IF runners[r].attached
           THEN /\ panel' = ShowCommitActions(p1, FALSE)
                /\ waitingForCommitConfirmation' = FALSE
                /\ runners' = cleanupRunner(rs1, runner, runnerListeners)
                /\ runner' = NoRef
                /\ runnerListeners' = NoRef
                /\ fx' = (IF CloseDecides
                          THEN OnPanel(panel, Fx("setStatus", NoRef, CloseStatus(code), <<>>, <<>>))
                          ELSE <<>>)
                         \o OnPanel(panel, Fx("showCommitActions", NoRef, "false", <<>>, <<>>))
           ELSE /\ runners' = rs1
                /\ fx' = <<>>
                /\ UNCHANGED <<panel, waitingForCommitConfirmation, runner, runnerListeners>>
  /\ UNCHANGED <<hasWorkspace, disposed, workspacePath, suggestedMessage, editedMessage,
                 hasMessageReady, replacingWithManualGitCommit, sawTerminalEvent,
                 nextRunner, nextChild, prompts, gits, timers>>

\* ------------------------------------------------------------ prompts
RemoveAt(q, i) == SubSeq(q, 1, i - 1) \o SubSeq(q, i + 1, Len(q))

\* Variant: a dismissed modal without a declared default answers yes.
ConfirmAnswerYesUnlessFalse(p, ans) ==
  CASE ans = "yes" -> Y
    [] ans = "no" -> N
    [] OTHER -> IF p.default = "false" THEN N ELSE Y

\* Variant: a dismissed quick pick answers with the first choice.
ChoiceAnswerIgnoringDefault(p, k) ==
  IF k > 0 THEN p.choices[k] ELSE p.choices[1]

\* handleConfirmNeeded after the await: 'Sim', 'Não' or dismissed
ConfirmAnswer(p, ans) ==
  CASE ans = "yes" -> Y
    [] ans = "no" -> N
    [] OTHER -> IF p.default = "true" THEN Y ELSE N

\* handleChoiceNeeded after the await: the k-th pick, or dismissed (k = 0)
ChoiceAnswer(p, k) ==
  IF k > 0 THEN p.choices[k]
  ELSE IF p.default # <<>> THEN p.default ELSE p.choices[1]

\* The operator answers or dismisses a pending modal.
ConfirmResolve(i, ans) ==
  /\ i \in 1..Len(prompts)
  /\ prompts[i].kind = "confirm"
  /\ fx' = RunnerRespond(ConfirmAnswer(prompts[i], ans))
  /\ prompts' = RemoveAt(prompts, i)
  /\ UNCHANGED <<hasWorkspace, disposed, panel, runner, runnerListeners, workspacePath,
                 session, runners, children, nextRunner, nextChild, gits, timers>>

\* The operator picks from or dismisses a pending quick pick.
ChoiceResolve(i, k) ==
  /\ i \in 1..Len(prompts)
  /\ prompts[i].kind = "choice"
  /\ k \in 0..Len(prompts[i].choices)
  /\ fx' = RunnerRespond(ChoiceAnswer(prompts[i], k))
  /\ prompts' = RemoveAt(prompts, i)
  /\ UNCHANGED <<hasWorkspace, disposed, panel, runner, runnerListeners, workspacePath,
                 session, runners, children, nextRunner, nextChild, gits, timers>>

\* ------------------------------------------------------------ operator
\* handlePanelMessage, type 'messageEdited'
PanelEdit(m) ==
  /\ panel.open
  /\ editedMessage' = m
  /\ fx' = <<>>
  /\ UNCHANGED <<hasWorkspace, disposed, panel, runner, runnerListeners, workspacePath,
                 suggestedMessage, hasMessageReady, waitingForCommitConfirmation,
                 replacingWithManualGitCommit, sawTerminalEvent, runners, children,
                 nextRunner, nextChild, prompts, gits, timers>>


\* Variant: cancel handled without the waitingForCommitConfirmation guard.
PanelCancelUnguarded ==
  /\ panel.open
  /\ waitingForCommitConfirmation' = FALSE
  /\ hasMessageReady' = FALSE
  /\ panel' = ShowCommitActions(panel, FALSE)
  /\ fx' = OnPanel(panel, Fx("showCommitActions", NoRef, "false", <<>>, <<>>))
           \o RunnerRespond(N)
  /\ UNCHANGED <<hasWorkspace, disposed, runner, runnerListeners, workspacePath,
                 suggestedMessage, editedMessage, replacingWithManualGitCommit,
                 sawTerminalEvent, runners, children, nextRunner, nextChild,
                 prompts, gits, timers>>

\* handlePanelMessage, type 'cancel'
PanelCancel ==
  /\ panel.open
  /\ IF ~waitingForCommitConfirmation
     THEN /\ fx' = <<>>
          /\ UNCHANGED <<panel, waitingForCommitConfirmation, hasMessageReady>>
     ELSE /\ waitingForCommitConfirmation' = FALSE
          /\ hasMessageReady' = FALSE
          /\ panel' = ShowCommitActions(panel, FALSE)
          /\ fx' = OnPanel(panel, Fx("showCommitActions", NoRef, "false", <<>>, <<>>))
                   \o RunnerRespond(N)
  /\ UNCHANGED <<hasWorkspace, disposed, runner, runnerListeners, workspacePath,
                 suggestedMessage, editedMessage, replacingWithManualGitCommit,
                 sawTerminalEvent, runners, children, nextRunner, nextChild,
                 prompts, gits, timers>>


\* Variant: an emptied message box no longer falls back to the tool's commit.
KeepsToolCommitOnlyIfEqual(edited, original) == edited = original

\* handleCommitConfirmation: the edited text decides between the tool's own
\* commit and the manual one.
KeepsToolCommit(edited, original) == edited = <<>> \/ edited = original


\* Variant: the message box handed to git as typed.
GitMessageUntrimmed(edited) == edited

\* handleCommitConfirmation: the message handed to runGitCommit
GitMessage(edited) == Trim(edited)

\* handlePanelMessage, type 'confirm' -> handleCommitConfirmation, up to the
\* await of runGitCommit
PanelConfirm ==
  /\ panel.open
  /\ LET edited == Trim(editedMessage)
         original == Trim(suggestedMessage)
         head == OnPanel(panel, Fx("showCommitActions", NoRef, "false", <<>>, <<>>))
     IN IF ~waitingForCommitConfirmation
        THEN /\ fx' = <<>>
             /\ UNCHANGED <<panel, waitingForCommitConfirmation, hasMessageReady,
                            replacingWithManualGitCommit, gits>>
        ELSE /\ waitingForCommitConfirmation' = FALSE
             /\ hasMessageReady' = FALSE
             /\ IF KeepsToolCommit(edited, original)
                THEN /\ panel' = ShowCommitActions(panel, FALSE)
                     /\ fx' = head \o RunnerRespond(Y)
                     /\ UNCHANGED <<replacingWithManualGitCommit, gits>>
                ELSE IF ~workspacePath
                THEN /\ panel' = SetStatus(ShowCommitActions(panel, FALSE), "error")
                     /\ fx' = head \o RunnerRespond(N)
                              \o OnPanel(panel, Fx("setStatus", NoRef, "error", <<>>, <<>>))
                              \o << Fx("notify", NoRef, "error:noWorkspacePath", <<>>, <<>>) >>
                     /\ replacingWithManualGitCommit' = FALSE
                     /\ UNCHANGED gits
                ELSE /\ Pending < MaxPending
                     /\ panel' = SetStatus(ShowCommitActions(panel, FALSE), "running")
                     /\ replacingWithManualGitCommit' = TRUE
                     /\ gits' = Append(gits, GitMessage(editedMessage))
                     /\ fx' = head \o RunnerRespond(N)
                              \o OnPanel(panel, Fx("setStatus", NoRef, "running", <<>>, <<>>))
                              \o << Fx("spawnGit", NoRef, "", GitMessage(editedMessage), <<>>) >>
  /\ UNCHANGED <<hasWorkspace, disposed, runner, runnerListeners, workspacePath,
                 suggestedMessage, editedMessage, sawTerminalEvent, runners, children,
                 nextRunner, nextChild, prompts, timers>>

\* How a manual git commit ends: its exit code, or 'error' when it could not
\* be spawned.
GitOutcomes == {"0", "1", "null", "error"}

\* Variant: the flag cleared at the end of the try block instead of in finally.
GitDoneClearsOnSuccessOnly(i, outcome, output) ==
  /\ i \in 1..Len(gits)
  /\ LET head == IF output
                 THEN OnPanel(panel, Fx("systemOutput", NoRef, "", <<>>, <<>>))
                 ELSE <<>>
     IN IF outcome = "0"
        THEN /\ panel' = SetStatus(panel, "success")
             /\ sawTerminalEvent' = TRUE
             /\ timers' = timers + 1
             /\ fx' = head
                      \o OnPanel(panel, Fx("setStatus", NoRef, "success", <<>>, <<>>))
                      \o << Fx("notify", NoRef, "info:manualCommitted", <<>>, <<>>),
                            Fx("timer", NoRef, "", <<>>, <<>>) >>
        ELSE /\ panel' = SetStatus(panel, "error")
             /\ fx' = head
                      \o OnPanel(panel, Fx("setStatus", NoRef, "error", <<>>, <<>>))
                      \o << Fx("notify", NoRef, "error:gitFailed", <<>>, <<>>) >>
             /\ UNCHANGED <<sawTerminalEvent, timers>>
  /\ replacingWithManualGitCommit' = (outcome # "0")
  /\ gits' = RemoveAt(gits, i)
  /\ UNCHANGED <<hasWorkspace, disposed, runner, runnerListeners, workspacePath,
                 suggestedMessage, editedMessage, hasMessageReady,
                 waitingForCommitConfirmation, runners, children, nextRunner,
                 nextChild, prompts>>

\* handleCommitConfirmation after the await of runGitCommit: try, catch, finally
GitDone(i, outcome, output) ==
  /\ i \in 1..Len(gits)
  /\ LET head == IF output
                 THEN OnPanel(panel, Fx("systemOutput", NoRef, "", <<>>, <<>>))
                 ELSE <<>>
     IN IF outcome = "0"
        THEN /\ panel' = SetStatus(panel, "success")
             /\ sawTerminalEvent' = TRUE
             /\ timers' = timers + 1
             /\ fx' = head
                      \o OnPanel(panel, Fx("setStatus", NoRef, "success", <<>>, <<>>))
                      \o << Fx("notify", NoRef, "info:manualCommitted", <<>>, <<>>),
                            Fx("timer", NoRef, "", <<>>, <<>>) >>
        ELSE /\ panel' = SetStatus(panel, "error")
             /\ fx' = head
                      \o OnPanel(panel, Fx("setStatus", NoRef, "error", <<>>, <<>>))
                      \o << Fx("notify", NoRef, "error:gitFailed", <<>>, <<>>) >>
             /\ UNCHANGED <<sawTerminalEvent, timers>>
  /\ replacingWithManualGitCommit' = FALSE
  /\ gits' = RemoveAt(gits, i)
  /\ UNCHANGED <<hasWorkspace, disposed, runner, runnerListeners, workspacePath,
                 suggestedMessage, editedMessage, hasMessageReady,
                 waitingForCommitConfirmation, runners, children, nextRunner,
                 nextChild, prompts>>

\* schedulePanelReset: the timer fires
TimerFire ==
  /\ timers > 0
  /\ timers' = timers - 1
  /\ panel' = ResetView(panel)
  /\ fx' = OnPanel(panel, Fx("reset", NoRef, "", <<>>, <<>>))
  /\ UNCHANGED <<hasWorkspace, disposed, runner, runnerListeners, workspacePath, session,
                 runners, children, nextRunner, nextChild, prompts, gits>>

\* ------------------------------------------------------------ specification
Next ==
  \/ StartCommit
  \/ PanelDispose
  \/ Dispose
  \/ \E m \in EditMsgs : PanelEdit(m)
  \/ PanelCancel
  \/ PanelConfirm
  \/ TimerFire
  \/ \E i \in 1..MaxPending, ans \in {"yes", "no", "dismiss"} : ConfirmResolve(i, ans)
  \/ \E i \in 1..MaxPending, k \in 0..2 : ChoiceResolve(i, k)
  \/ \E i \in 1..MaxPending, outcome \in GitOutcomes, output \in BOOLEAN :
       GitDone(i, outcome, output)
  \/ \E c \in Ids :
       \/ \E m \in EventMsgs : ToolMessageReady(c, m)
       \/ \E prompt \in Prompts, def \in ConfirmDefaults : ToolConfirmNeeded(c, prompt, def)
       \/ \E ev \in ChoiceEvents : ToolChoiceNeeded(c, ev)
       \/ \E summary \in OptTexts : ToolCommitted(c, summary)
       \/ \E reason \in OptTexts : ToolCancelled(c, reason)
       \/ \E kind \in OtherKinds : ToolOther(c, kind)
       \/ \E code \in ExitCodes : ChildClose(c, code)
       \/ ToolError(c)
       \/ ToolStderr(c)
       \/ ChildError(c)
       \/ StdinClose(c)
       \/ Unheard(c)

Spec == Init /\ [][Next]_vars

\* ------------------------------------------------------------ SeshatRunner alone
\* One SeshatRunner driven directly through its public methods, with no
\* controller listening: run(), respond(), kill(), and the child's own
\* close and stdin.
HarnessTexts == { <<>>, Y, CB }

RunnerInit ==
  /\ hasWorkspace = FALSE
  /\ disposed = FALSE
  /\ panel = ClosedPanel
  /\ runner = NoRef
  /\ runnerListeners = NoRef
  /\ workspacePath = FALSE
  /\ suggestedMessage = <<>>
  /\ editedMessage = <<>>
  /\ hasMessageReady = FALSE
  /\ waitingForCommitConfirmation = FALSE
  /\ replacingWithManualGitCommit = FALSE
  /\ sawTerminalEvent = FALSE
  /\ runners = [r \in Ids |-> NewRunner]
  /\ children = [c \in Ids |-> NoChild]
  /\ nextRunner = 1
  /\ nextChild = 0
  /\ prompts = <<>>
  /\ gits = <<>>
  /\ timers = 0
  /\ fx = <<>>

\* run(): throws while isRunning(), else spawns and keeps the child
HarnessRun(r) ==
  /\ r \in 1..nextRunner
  /\ IF isRunning(r)
     THEN /\ fx' = << Fx("throw", r, "alreadyRunning", <<>>, <<>>) >>
          /\ UNCHANGED <<runners, children, nextChild>>
     ELSE /\ nextChild < MaxStarts
          /\ runners' = Spawned(runners, r, nextChild + 1)
          /\ children' = [children EXCEPT ![nextChild + 1] = LiveChild(r)]
          /\ nextChild' = nextChild + 1
          /\ fx' = << Fx("spawn", nextChild + 1, "tool", <<>>, <<>>) >>
  /\ UNCHANGED <<ctl, nextRunner>>

\* respond(text)
HarnessRespond(r, text) ==
  /\ r \in 1..nextRunner
  /\ fx' = << respond(r, text) >>
  /\ UNCHANGED <<ctl, runners, children, nextRunner, nextChild>>

\* kill()
HarnessKill(r, delivered) ==
  /\ r \in 1..nextRunner
  /\ children' = kill(children, r, delivered)
  /\ fx' = << Fx("kill", runners[r].process, "", <<>>, <<>>) >>
  /\ UNCHANGED <<ctl, runners, nextRunner, nextChild>>

RunnerNext ==
  \/ \E r \in Ids : HarnessRun(r)
  \/ \E r \in Ids, text \in HarnessTexts : HarnessRespond(r, text)
  \/ \E r \in Ids, delivered \in BOOLEAN : HarnessKill(r, delivered)
  \/ \E c \in Ids, code \in ExitCodes : ChildClose(c, code)
  \/ \E c \in Ids : StdinClose(c)
  \/ \E c \in Ids : Unheard(c)

RunnerSpec == RunnerInit /\ [][RunnerNext]_vars


\* ------------------------------------------------------------ properties
\* The respond() calls of a step, the hiding of the commit controls, the manual
\* git commits spawned.
Responds(f) == SelectSeq(f, LAMBDA e : e.op = "respond")
Hides(f) == SelectSeq(f, LAMBDA e : e.op = "showCommitActions" /\ e.s = "false")
GitSpawns(f) == SelectSeq(f, LAMBDA e : e.op = "spawnGit")

\* The one respond() call `this.runner?.respond(text)` makes on an attached
\* runner: the text lands, newline-terminated, when the handle is live and
\* writable, and is dropped otherwise.
AnswerOf(text) ==
  IF CanRespond(runner)
  THEN << Fx("respond", runner, "true", text, text \o << NL >>) >>
  ELSE << Fx("respond", runner, "false", text, <<>>) >>

\* The tool children that were spawned and have not reported close.
NotClosed == {c \in Ids : children[c].state = "live"}

\* C1: in every reachable state at most one tool subprocess has been spawned
\* and has not yet reported close.
C1_AtMostOneLiveSubprocess == Cardinality(NotClosed) <= 1

\* C2: a startCommit made while the current runner reports isRunning() spawns
\* nothing, leaves the runner, its listeners and the six session fields as they
\* were, and only reveals the Display and shows the informational notification.
C2_RejectedStartFrame ==
  [][(StartCommit /\ runner # NoRef /\ isRunning(runner)) =>
       /\ UNCHANGED <<runner, runnerListeners, runners, children, nextRunner, nextChild>>
       /\ UNCHANGED session
       /\ UNCHANGED <<panel, workspacePath, prompts, gits, timers>>
       /\ fx' = << Fx("reveal", NoRef, "", <<>>, <<>>),
                   Fx("notify", NoRef, "info:alreadyRunning", <<>>, <<>>) >>]_vars

C2_Witness ==
  /\ fx = << Fx("reveal", NoRef, "", <<>>, <<>>),
             Fx("notify", NoRef, "info:alreadyRunning", <<>>, <<>>) >>
  /\ hasMessageReady
  /\ waitingForCommitConfirmation
  /\ editedMessage # suggestedMessage

\* C3: a confirm_needed whose prompt contains "commit" in any letter case,
\* received after a message_ready, sets waitingForCommitConfirmation, shows the
\* commit controls with the prompt and opens no modal and writes nothing; any
\* other confirm_needed leaves waitingForCommitConfirmation alone and opens a
\* modal, whose resolution answers with "y" or "n".
C3_ConfirmNeededClassification ==
  [][/\ \A c \in Ids, prompt \in Prompts, def \in ConfirmDefaults :
          (/\ Heard(c)
           /\ UNCHANGED <<suggestedMessage, editedMessage, hasMessageReady,
                          sawTerminalEvent, runner, children, gits, timers>>
           /\ ToolConfirmNeeded(c, prompt, def)) =>
            IF hasMessageReady /\ prompt = <<"C", "o", "M", "m", "i", "t", "?">>
            THEN /\ waitingForCommitConfirmation'
                 /\ fx' = << Fx("post", NoRef, "confirm_needed", prompt, <<>>),
                             Fx("showCommitActions", NoRef, "true", prompt, <<>>) >>
                 /\ panel'.actions
                 /\ prompts' = prompts
            ELSE /\ waitingForCommitConfirmation' = waitingForCommitConfirmation
                 /\ fx' = << Fx("post", NoRef, "confirm_needed", prompt, <<>>),
                             Fx("modal", NoRef, def, prompt, <<>>) >>
                 /\ Len(prompts') = Len(prompts) + 1
                 /\ prompts'[Len(prompts')].kind = "confirm"
     /\ \A i \in 1..MaxPending, ans \in {"yes", "no", "dismiss"} :
          ConfirmResolve(i, ans) =>
            /\ waitingForCommitConfirmation' = waitingForCommitConfirmation
            /\ fx' = Responds(fx')
            /\ Len(fx') = (IF runner = NoRef THEN 0 ELSE 1)
            /\ \A k \in 1..Len(fx') : fx'[k].t \in {Y, N}]_vars

C3_Witness ==
  /\ waitingForCommitConfirmation
  /\ hasMessageReady
  /\ fx = << Fx("post", NoRef, "confirm_needed", <<"C", "o", "M", "m", "i", "t", "?">>, <<>>),
             Fx("showCommitActions", NoRef, "true",
                <<"C", "o", "M", "m", "i", "t", "?">>, <<>>) >>

\* C4: a confirm action while waitingForCommitConfirmation, with the trimmed
\* editedMessage empty or equal to the trimmed suggestedMessage, makes exactly
\* one respond call, "y", on the attached runner (written when its handle is
\* live and writable) and spawns no manual git commit; a confirm action while
\* not waiting writes nothing.
C4_ConfirmUnchangedAnswersYes ==
  [][PanelConfirm =>
       IF waitingForCommitConfirmation
       THEN (Trim(editedMessage) = <<>> \/ Trim(editedMessage) = Trim(suggestedMessage)) =>
              /\ runner # NoRef
              /\ Responds(fx') = AnswerOf(Y)
              /\ GitSpawns(fx') = <<>>
              /\ gits' = gits
              /\ ~waitingForCommitConfirmation'
       ELSE /\ fx' = <<>>
            /\ gits' = gits]_vars

C4_Witness ==
  /\ fx = << Fx("showCommitActions", NoRef, "false", <<>>, <<>>),
             Fx("respond", runner, "true", Y, <<"y", NL>>) >>
  /\ editedMessage = <<"b", SP>>
  /\ suggestedMessage = <<SP, "b">>
  /\ gits = <<>>


\* An edit that makes the confirm action replace the tool's commit: the
\* trimmed editedMessage is non-empty and differs from the trimmed
\* suggestedMessage.
EditedDiffers ==
  /\ Trim(editedMessage) # <<>>
  /\ Trim(editedMessage) # Trim(suggestedMessage)

\* A manual git commit that exits with code 0 ends the workflow in success:
\* sawTerminalEvent is set, an open Display shows success, and nothing is
\* written to the tool.
ManualCommitSucceeds ==
  \A i \in 1..MaxPending, output \in BOOLEAN :
    GitDone(i, "0", output) =>
      /\ sawTerminalEvent'
      /\ panel.open => panel'.status = "success"
      /\ Responds(fx') = <<>>
      /\ GitSpawns(fx') = <<>>
      /\ gits' = RemoveAt(gits, i)

C6_CloseStatus ==
  [][\A c \in Ids, code \in ExitCodes :
       ChildClose(c, code) =>
         /\ (runners[children[c].owner].attached
               /\ ~sawTerminalEvent /\ ~replacingWithManualGitCommit) =>
              /\ panel.open
              /\ panel'.status = (IF code = "0" THEN "success" ELSE "error")
              /\ fx'[1] = Fx("setStatus", NoRef,
                             IF code = "0" THEN "success" ELSE "error", <<>>, <<>>)
         /\ replacingWithManualGitCommit =>
              /\ panel'.status = panel.status
              /\ \A k \in 1..Len(fx') : fx'[k].op # "setStatus"]_vars

C6_Witness ==
  /\ fx = << Fx("setStatus", NoRef, "error", <<>>, <<>>),
             Fx("showCommitActions", NoRef, "false", <<>>, <<>>) >>
  /\ panel.status = "error"
  /\ runner = NoRef
  /\ ~sawTerminalEvent
  /\ ~replacingWithManualGitCommit

\* C7: a cancel action while waitingForCommitConfirmation makes one respond
\* call, "n", on the attached runner, clears waitingForCommitConfirmation and
\* hasMessageReady and hides the commit controls exactly once; a cancel action
\* while not waiting does none of these.
C7_CancelDeclines ==
  [][PanelCancel =>
       IF waitingForCommitConfirmation
       THEN /\ runner # NoRef
            /\ Responds(fx') = AnswerOf(N)
            /\ Len(Hides(fx')) = 1
            /\ ~panel'.actions
            /\ ~waitingForCommitConfirmation'
            /\ ~hasMessageReady'
       ELSE /\ fx' = <<>>
            /\ UNCHANGED <<panel, hasMessageReady, waitingForCommitConfirmation>>]_vars

C7_Witness ==
  /\ fx = << Fx("showCommitActions", NoRef, "false", <<>>, <<>>),
             Fx("respond", runner, "true", N, <<"n", NL>>) >>
  /\ ~waitingForCommitConfirmation
  /\ ~hasMessageReady
  /\ ~panel.actions

\* C8: handling a message_ready with message m leaves suggestedMessage and
\* editedMessage both equal to m and hasMessageReady true, whatever the
\* operator had typed before, and hands the Display m as both the current and
\* the original value.
C8_MessageReadyOverwrites ==
  [][\A c \in Ids, m \in EventMsgs :
       ToolMessageReady(c, m) =>
         /\ suggestedMessage' = m
         /\ editedMessage' = m
         /\ hasMessageReady'
         /\ fx' = << Fx("post", NoRef, "message_ready", m, <<>>),
                     Fx("setCommitMessage", NoRef, "", m, m) >>]_vars

C8_Witness ==
  /\ fx = << Fx("post", NoRef, "message_ready", <<SP, "b">>, <<>>),
             Fx("setCommitMessage", NoRef, "", <<SP, "b">>, <<SP, "b">>) >>
  /\ suggestedMessage = <<SP, "b">>
  /\ editedMessage = <<SP, "b">>
  /\ hasMessageReady

\* C9: for every SeshatRunner, isRunning() is true exactly when a child it
\* spawned has not yet reported close, also after kill() has been requested.
C9_IsRunningUntilClose ==
  \A r \in 1..nextRunner :
    isRunning(r) <=> (\E c \in NotClosed : children[c].owner = r)

\* C10: respond(text) on a live, writable handle returns true and writes text
\* followed by exactly one trailing newline, none added when text already ends
\* with one; with no handle, a killed handle or an unwritable input it returns
\* false, writes nothing and raises nothing; it changes no state either way.
C10_RespondPayload ==
  [][\A r \in Ids, text \in HarnessTexts :
       HarnessRespond(r, text) =>
         LET usable == /\ runners[r].process # NoRef
                       /\ ~children[runners[r].process].killed
                       /\ children[runners[r].process].writable
             ended == text # <<>> /\ text[Len(text)] = NL
         IN /\ UNCHANGED <<runners, children>>
            /\ fx' = << [op |-> "respond", n |-> r,
                         s |-> IF usable THEN "true" ELSE "false",
                         t |-> text,
                         u |-> IF ~usable THEN <<>>
                               ELSE IF ended THEN text ELSE text \o << NL >>] >>]_vars

C10_Witness ==
  /\ fx = << Fx("respond", 1, "true", CB, CB) >>
  /\ runners[1].process # NoRef


\* ------------------------------------------------------------ stdout lines
\* A line of the tool's standard output, as a sequence of JSON lexemes: the
\* punctuation, the string "event" (e), another string (a), a number (1),
\* null (n) and a blank.
MaxLine == 6
JsonTokens == {"{", "}", "[", "]", ":", "e", "a", "1", "n", SP}
Lines == UNION {[1..k -> JsonTokens] : k \in 0..MaxLine}

\* The lexemes of a text without the insignificant whitespace between them.
Significant(s) == SelectSeq(s, LAMBDA c : ~IsSpace(c))

NoParse == [ok |-> FALSE, type |-> "none", keys |-> {}, rest |-> <<>>]

\* JSON.parse, one value from the front of the lexemes t: its type, its own
\* property names, and what follows it.
RECURSIVE ParseValue(_)
ParseValue(t) ==
  IF t = <<>> THEN NoParse
  ELSE CASE Head(t) = "1" ->
              [ok |-> TRUE, type |-> "number", keys |-> {}, rest |-> Tail(t)]
         [] Head(t) = "n" ->
              [ok |-> TRUE, type |-> "null", keys |-> {}, rest |-> Tail(t)]
         [] Head(t) \in {"e", "a"} ->
              [ok |-> TRUE, type |-> "string", keys |-> {}, rest |-> Tail(t)]
         [] Head(t) = "[" ->
              IF Len(t) >= 2 /\ t[2] = "]"
              THEN [ok |-> TRUE, type |-> "array", keys |-> {"length"},
                    rest |-> SubSeq(t, 3, Len(t))]
              ELSE LET v == ParseValue(Tail(t))
                   IN IF v.ok /\ v.rest # <<>> /\ Head(v.rest) = "]"
                      THEN [ok |-> TRUE, type |-> "array", keys |-> {"0", "length"},
                            rest |-> Tail(v.rest)]
                      ELSE NoParse
         [] Head(t) = "{" ->
              IF Len(t) >= 2 /\ t[2] = "}"
              THEN [ok |-> TRUE, type |-> "object", keys |-> {},
                    rest |-> SubSeq(t, 3, Len(t))]
              ELSE IF Len(t) >= 4 /\ t[2] \in {"e", "a"} /\ t[3] = ":"
              THEN LET v == ParseValue(SubSeq(t, 4, Len(t)))
                   IN IF v.ok /\ v.rest # <<>> /\ Head(v.rest) = "}"
                      THEN [ok |-> TRUE, type |-> "object", keys |-> {t[2]},
                            rest |-> Tail(v.rest)]
                      ELSE NoParse
              ELSE NoParse
         [] OTHER -> NoParse

\* JSON.parse(trimmed): the whole text is one value, or it throws.
JsonParse(s) ==
  LET v == ParseValue(Significant(s)) IN IF v.ok /\ v.rest = <<>> THEN v ELSE NoParse

\* typeof parsed
TypeOf(v) == IF v.type \in {"object", "array", "null"} THEN "object" ELSE v.type

\* Variant: every decoded object passes for an event.
IsEventAnyObject(parsed) == TypeOf(parsed) = "object" /\ parsed.type # "null"

\* typeof parsed === 'object' && parsed !== null && 'event' in parsed
IsEvent(parsed) ==
  TypeOf(parsed) = "object" /\ parsed.type # "null" /\ "e" \in parsed.keys

\* The stdout 'line' listener of runner r: what it emits for a line.
OnLine(r, line) ==
  LET trimmed == Trim(line)
      parsed == JsonParse(trimmed)
  IN IF trimmed = <<>> THEN <<>>
     ELSE IF parsed.ok /\ IsEvent(parsed)
     THEN << Fx("emit", r, "event", Significant(trimmed), <<>>) >>
     ELSE << Fx("emit", r, "info", trimmed, <<>>) >>

\* One SeshatRunner with a running child and nobody listening; readline has a
\* line of the child's standard output to deliver.
LineInit ==
  /\ hasWorkspace = FALSE
  /\ disposed = FALSE
  /\ panel = ClosedPanel
  /\ runner = NoRef
  /\ runnerListeners = NoRef
  /\ workspacePath = FALSE
  /\ suggestedMessage = <<>>
  /\ editedMessage = <<>>
  /\ hasMessageReady = FALSE
  /\ waitingForCommitConfirmation = FALSE
  /\ replacingWithManualGitCommit = FALSE
  /\ sawTerminalEvent = FALSE
  /\ runners = Spawned([r \in Ids |-> NewRunner], 1, 1)
  /\ children = [c \in Ids |-> IF c = 1 THEN LiveChild(1) ELSE NoChild]
  /\ nextRunner = 1
  /\ nextChild = 1
  /\ prompts = <<>>
  /\ gits = <<>>
  /\ timers = 0
  /\ \E line \in Lines : fx = << Fx("stdout", 1, "", line, <<>>) >>

\* stdoutReader.on('line'): the pending line is handled
StdoutLine(c) ==
  /\ Reads(c)
  /\ Len(fx) = 1
  /\ fx[1].op = "stdout"
  /\ fx[1].n = c
  /\ fx' = << Fx("line", c, "", fx[1].t, <<>>) >> \o OnLine(children[c].owner, fx[1].t)
  /\ UNCHANGED <<ctl, runners, children, nextRunner, nextChild>>

LineNext == \E c \in Ids : StdoutLine(c)

LineSpec == LineInit /\ [][LineNext]_vars

\* C11: a stdout line makes the runner emit nothing when its trimmed text is
\* blank and exactly one event notification otherwise: the decoded object when
\* the text is a JSON object with the discriminator field, else an info event
\* carrying the trimmed text, for unparsable text and for JSON without the
\* field alike; no error is emitted and the child and its runner stay as
\* they were.
C11_LineDecoding ==
  (fx # <<>> /\ fx[1].op = "line") =>
     LET line == fx[1].t
         text == Trim(line)
         json == JsonParse(text)
         out == Tail(fx)
     IN /\ IF text = <<>>
           THEN out = <<>>
           ELSE /\ Len(out) = 1
                /\ out[1].op = "emit"
                /\ out[1].n = 1
                /\ IF json.ok /\ json.type = "object" /\ "e" \in json.keys
                   THEN out[1].s = "event" /\ out[1].t = Significant(line)
                   ELSE out[1].s = "info" /\ out[1].t = text
        /\ isRunning(1)
        /\ Reads(1)

\* A line with blanks around a JSON object that carries the field, decoded.
C11_Witness ==
  /\ Len(fx) = 2
  /\ fx[1] = Fx("line", 1, "", <<SP, "{", "e", ":", "1">> \o << "}" >>, <<>>)
  /\ fx[2] = Fx("emit", 1, "event", <<"{", "e", ":", "1", "}">>, <<>>)

\* The last step reported a failure to start the tool: run() threw, or the
\* child emitted 'error'.
SpawnFailed ==
  \E k \in 1..Len(fx) :
    fx[k].op = "notify" /\ fx[k].s \in {"error:startFailed", "error:process"}

\* C12: after a spawn failure, reported by an exception from run() or by the
\* child's asynchronous error notification, the status is error, no runner is
\* retained (none reports isRunning(), this.runner is released) and a
\* startCommit that follows immediately is not rejected as already running.
C12_SpawnFailureReleasesRunner ==
  SpawnFailed =>
    /\ panel.status = "error"
    /\ runner = NoRef
    /\ \A r \in 1..nextRunner : ~isRunning(r)

\* C13: every text written to the tool's standard input is "y", "n", or one of
\* the choices of the choice_needed event the step answers, also when the
\* answer is the event's declared default; the edited commit message is never
\* written there.
C13_OnlyProtocolAnswers ==
  [][\A k \in 1..Len(fx') :
       (fx'[k].op = "respond" /\ fx'[k].s = "true") =>
          \/ fx'[k].t \in {Y, N}
          \/ \E i \in 1..Len(prompts) :
               /\ prompts[i].kind = "choice"
               /\ prompts' = RemoveAt(prompts, i)
               /\ \E j \in 1..Len(prompts[i].choices) : fx'[k].t = prompts[i].choices[j]]_vars

\* ------------------------------------------------------------ progress
\* A manual git commit that was spawned ends: its child closes or reports an
\* error, and the await in handleCommitConfirmation resumes.
FairSpec ==
  /\ Spec
  /\ WF_vars(\E i \in 1..MaxPending, outcome \in GitOutcomes, output \in BOOLEAN :
               GitDone(i, outcome, output))

\* The last step was the end of a manual git commit, in success or failure.
GitEnded ==
  \E k \in 1..Len(fx) :
    fx[k].op = "notify" /\ fx[k].s \in {"info:manualCommitted", "error:gitFailed"}

\* The last step was a startCommit rejected as already running.
StartWasRejected ==
  \E k \in 1..Len(fx) : fx[k].op = "notify" /\ fx[k].s = "info:alreadyRunning"

AttachedLive ==
  /\ runner # NoRef
  /\ runnerListeners = runner
  /\ runners[runner].attached
  /\ \E c \in NotClosed : children[c].owner = runner

\* C15: waitingForCommitConfirmation is true only while the commit
\* confirmation of the attached, live subprocess is outstanding; it is false
\* whenever no runner is attached.
C15_WaitingOnlyWhileAttached ==
  waitingForCommitConfirmation => (AttachedLive /\ hasMessageReady)

\* C16: replacingWithManualGitCommit is true exactly while a manual git commit
\* is running: never true with none pending, and never cleared while one is
\* still running.
C16_FlagWhileManualCommitRuns ==
  replacingWithManualGitCommit <=> (gits # <<>>)

\* The last step ended a workflow: committed, a successful manual commit,
\* cancelled, an error event, or a close that set the status to error.
WorkflowEnded ==
  \E k \in 1..Len(fx) :
    \/ fx[k].op = "notify"
         /\ fx[k].s \in {"info:committed", "info:manualCommitted",
                         "warn:cancelled", "error:event"}
    \/ fx[k].op = "setStatus" /\ fx[k].s = "error" /\ runner = NoRef
         /\ ~SpawnFailed

\* C17: every end of a workflow, successful, cancelled or failed, arms the
\* linger timer, and the reset it performs returns the session fields to
\* their initial values.
C17_ResetAfterEveryEnd ==
  [][/\ WorkflowEnded' => timers' = timers + 1
     /\ TimerFire =>
          /\ suggestedMessage' = <<>>
          /\ editedMessage' = <<>>
          /\ ~hasMessageReady'
          /\ ~waitingForCommitConfirmation'
          /\ ~replacingWithManualGitCommit'
          /\ ~sawTerminalEvent']_vars

\* A notification of child c: an event, a stderr line, an error or its close.
Notification(c) ==
  \/ \E m \in EventMsgs : ToolMessageReady(c, m)
  \/ \E prompt \in Prompts, def \in ConfirmDefaults : ToolConfirmNeeded(c, prompt, def)
  \/ \E ev \in ChoiceEvents : ToolChoiceNeeded(c, ev)
  \/ \E summary \in OptTexts : ToolCommitted(c, summary)
  \/ \E reason \in OptTexts : ToolCancelled(c, reason)
  \/ \E kind \in OtherKinds : ToolOther(c, kind)
  \/ \E code \in ExitCodes : ChildClose(c, code)
  \/ ToolError(c)
  \/ ToolStderr(c)
  \/ ChildError(c)
  \/ Unheard(c)

\* C18: while a handler waits for a modal answer, a quick-pick selection or
\* the manual git commit, no other handler runs: no event or close of the
\* subprocess is handled, and so none changes the session or the status,
\* before the waiting handler has resumed and finished.
C18_RunToCompletion ==
  [][\A c \in Ids :
       (Notification(c) /\ (prompts # <<>> \/ gits # <<>>)) =>
          UNCHANGED <<session, panel, runner, runnerListeners, prompts, gits, timers>>]_vars

\* C19: after the Display was disposed with a live subprocess, the subprocess
\* is killed and its close runs the close transition: the commit controls are
\* hidden, waitingForCommitConfirmation is cleared and the runner is released.
C19_DisposeRunsCloseTransition ==
  [][/\ (PanelDispose /\ runner # NoRef /\ isRunning(runner)) =>
          /\ children'[runners[runner].process].killed
          /\ runner' = NoRef
     /\ \A c \in Ids, code \in ExitCodes :
          (ChildClose(c, code) /\ children[c].killed /\ runner = NoRef) =>
             /\ ~waitingForCommitConfirmation'
             /\ ~panel'.actions]_vars

\* C20: once the controller has released a runner (after its close, on Display
\* disposal or dispose, or after a failed start), no later event, stderr line,
\* error or close of that runner's subprocess changes a session field, the
\* status, the attached runner or anything the controller is waiting for.
C20_ReleasedRunnerIsMute ==
  [][\A c \in Ids :
       (/\ children[c].state = "live"
        /\ ~runners[children[c].owner].attached
        /\ Notification(c)) =>
          /\ UNCHANGED <<session, panel, runner, runnerListeners, workspacePath,
                         prompts, gits, timers>>
          /\ fx' = <<>>]_vars

\* The killed subprocess of a released runner has closed while the workflow
\* started after it awaits the commit confirmation.
C20_Witness ==
  /\ children[1].killed
  /\ children[1].state = "closed"
  /\ runner = 2
  /\ waitingForCommitConfirmation
  /\ panel.status = "running"
  /\ fx = <<>>

\* ------------------------------------------------------------ terminal events
\* C21: handling a committed event sets sawTerminalEvent, clears
\* waitingForCommitConfirmation and hasMessageReady, hides the commit controls,
\* sets the status to success with the event's summary (the default text when
\* the summary is absent), notifies the operator and arms one reset timer; a
\* close of the subprocess after a terminal event, whatever its exit code,
\* leaves the status as it was.
C21_CommittedIsTerminalSuccess ==
  [][/\ \A c \in Ids, summary \in OptTexts :
          ToolCommitted(c, summary) =>
            LET text == IF summary = <<>> THEN <<"d">> ELSE summary
            IN /\ sawTerminalEvent'
               /\ ~waitingForCommitConfirmation'
               /\ ~hasMessageReady'
               /\ ~panel'.actions
               /\ panel'.status = "success"
               /\ timers' = timers + 1
               /\ fx' = << Fx("post", NoRef, "committed", summary, <<>>),
                           Fx("showCommitActions", NoRef, "false", <<>>, <<>>),
                           Fx("setStatus", NoRef, "success", text, <<>>),
                           Fx("notify", NoRef, "info:committed", text, <<>>),
                           Fx("timer", NoRef, "", <<>>, <<>>) >>
     /\ \A c \in Ids, code \in ExitCodes :
          (ChildClose(c, code) /\ sawTerminalEvent) =>
             /\ panel'.status = panel.status
             /\ \A k \in 1..Len(fx') : fx'[k].op # "setStatus"]_vars

\* A committed event without a summary has just been handled.
C21_Witness ==
  /\ fx = << Fx("post", NoRef, "committed", <<>>, <<>>),
             Fx("showCommitActions", NoRef, "false", <<>>, <<>>),
             Fx("setStatus", NoRef, "success", <<"d">>, <<>>),
             Fx("notify", NoRef, "info:committed", <<"d">>, <<>>),
             Fx("timer", NoRef, "", <<>>, <<>>) >>
  /\ sawTerminalEvent
  /\ panel.status = "success"
  /\ timers = 1

Notifies(f) == SelectSeq(f, LAMBDA e : e.op = "notify")

\* C22: while replacingWithManualGitCommit is true a cancelled or error event
\* leaves the displayed status as it was and notifies nobody (a cancelled event
\* still sets sawTerminalEvent and clears waitingForCommitConfirmation and
\* hasMessageReady); otherwise the same events set the status to error and
\* notify the operator, a cancellation with its reason or the default text.
C22_SuppressedDuringManualFallback ==
  [][\A c \in Ids :
       /\ \A reason \in OptTexts :
            ToolCancelled(c, reason) =>
              /\ sawTerminalEvent'
              /\ ~waitingForCommitConfirmation'
              /\ ~hasMessageReady'
              /\ IF replacingWithManualGitCommit
                 THEN /\ panel'.status = panel.status
                      /\ Notifies(fx') = <<>>
                 ELSE /\ panel'.status = "error"
                      /\ Notifies(fx') =
                           << Fx("notify", NoRef, "warn:cancelled",
                                 IF reason = <<>> THEN <<"r">> ELSE reason, <<>>) >>
       /\ ToolError(c) =>
            IF replacingWithManualGitCommit
            THEN /\ panel'.status = panel.status
                 /\ Notifies(fx') = <<>>
            ELSE /\ panel'.status = "error"
                 /\ Notifies(fx') = << Fx("notify", NoRef, "error:event", <<>>, <<>>) >>]_vars

\* ------------------------------------------------------------ prompt answers
\* C23: resolving the modal of a generic confirm_needed while the runner that
\* emitted it is still attached makes exactly one respond call on that runner
\* and closes the prompt: "y" for Yes, "n" for No, and on dismissal "y" when
\* the declared default is true and "n" when it is false or absent.
C23_GenericConfirmAnswer ==
  [][\A i \in 1..MaxPending, ans \in {"yes", "no", "dismiss"} :
       (ConfirmResolve(i, ans) /\ runner # NoRef /\ runner = prompts[i].from) =>
          LET text == CASE ans = "yes" -> <<"y">>
                        [] ans = "no" -> <<"n">>
                        [] ans = "dismiss" /\ prompts[i].default = "true" -> <<"y">>
                        [] OTHER -> <<"n">>
          IN /\ fx' = AnswerOf(text)
             /\ fx'[1].n = prompts[i].from
             /\ Len(prompts') = Len(prompts) - 1]_vars

\* A modal without a declared default was dismissed and "n" was written to the
\* subprocess that asked.
C23_Witness ==
  /\ fx = << Fx("respond", 1, "true", <<"n">>, <<"n", NL>>) >>
  /\ runner = 1
  /\ prompts = <<>>
  /\ ~hasMessageReady
  /\ ~sawTerminalEvent

\* C24: a choice_needed without choices opens nothing and leaves nothing to
\* answer; one with choices opens one quick pick and writes nothing yet, and
\* its resolution, while the runner that emitted it is still attached, makes
\* exactly one respond call: the picked choice, or on dismissal the declared
\* default when there is one and the first choice otherwise.
C24_ChoiceAnswer ==
  [][/\ \A c \in Ids, ev \in ChoiceEvents :
          ToolChoiceNeeded(c, ev) =>
            IF ev.choices = <<>>
            THEN /\ prompts' = prompts
                 /\ fx' = << Fx("post", NoRef, "choice_needed", ev.default, <<>>) >>
            ELSE /\ Len(prompts') = Len(prompts) + 1
                 /\ prompts'[Len(prompts')].kind = "choice"
                 /\ Responds(fx') = <<>>
                 /\ Len(SelectSeq(fx', LAMBDA e : e.op = "quickPick")) = 1
     /\ \A i \in 1..MaxPending, k \in 0..2 :
          (ChoiceResolve(i, k) /\ runner # NoRef /\ runner = prompts[i].from) =>
             LET text == CASE k = 1 -> <<"a">>
                           [] k = 2 -> <<"b", NL>>
                           [] k = 0 /\ prompts[i].default = <<"z">> -> <<"z">>
                           [] OTHER -> <<"a">>
             IN /\ prompts[i].choices = << <<"a">>, <<"b", NL>> >>
                /\ Len(fx') = 1
                /\ fx'[1].op = "respond"
                /\ fx'[1].n = prompts[i].from
                /\ fx'[1].t = text
                /\ Len(prompts') = Len(prompts) - 1]_vars

\* A quick pick with a declared default was dismissed and the default was
\* written to the subprocess that asked.
C24_Witness ==
  /\ fx = << Fx("respond", 1, "true", <<"z">>, <<"z", NL>>) >>
  /\ runner = 1
  /\ prompts = <<>>

\* ------------------------------------------------------------ forwarding
\* C25: the first thing the handling of an event does is to hand the Display
\* that event, its kind and content as received; an event of a kind other than
\* message_ready, confirm_needed, choice_needed, committed, cancelled and
\* error, a kind nobody knows included, does nothing else: the six session
\* fields, the runner and the pending prompts, git commits and timers stay as
\* they were and nothing is written to the subprocess.
C25_ForwardedFirstOthersInert ==
  [][\A c \in Ids :
       LET First(kind, text) ==
             /\ fx' # <<>>
             /\ fx'[1] = Fx("post", NoRef, kind, text, <<>>)
             /\ \A k \in 2..Len(fx') : fx'[k].op # "post"
       IN (Heard(c) /\ UNCHANGED <<runner, runnerListeners, runners, children, gits,
                                   replacingWithManualGitCommit>>) =>
            /\ \A m \in EventMsgs :
                 ToolMessageReady(c, m) => First("message_ready", m)
            /\ \A prompt \in Prompts, def \in ConfirmDefaults :
                 ToolConfirmNeeded(c, prompt, def) => First("confirm_needed", prompt)
            /\ \A ev \in ChoiceEvents :
                 ToolChoiceNeeded(c, ev) => First("choice_needed", ev.default)
            /\ \A summary \in OptTexts :
                 ToolCommitted(c, summary) => First("committed", summary)
            /\ \A reason \in OptTexts :
                 ToolCancelled(c, reason) => First("cancelled", reason)
            /\ ToolError(c) => First("error", <<>>)
            /\ \A kind \in {"info", "progress_started", "unknown"} :
                 ToolOther(c, kind) =>
                   /\ fx' = << Fx("post", NoRef, kind, <<>>, <<>>) >>
                   /\ UNCHANGED <<session, runner, runnerListeners, prompts, gits,
                                  timers, runners, children>>]_vars

\* An event of an unknown kind was forwarded while the commit confirmation
\* was awaited.
C25_Witness ==
  /\ fx = << Fx("post", NoRef, "unknown", <<>>, <<>>) >>
  /\ waitingForCommitConfirmation
  /\ hasMessageReady

\* ------------------------------------------------------------ flag combinations
\* C26: in no reachable state are waitingForCommitConfirmation and
\* replacingWithManualGitCommit both true.
C26_NeverWaitingWhileReplacing ==
  ~(waitingForCommitConfirmation /\ replacingWithManualGitCommit)

\* ------------------------------------------------------------ stale prompts
\* C27: the answer of a quick pick is written only to the subprocess of the
\* runner that emitted its choice_needed event: resolving it calls respond on
\* no other runner.
C27_AnswerGoesToTheAsker ==
  [][\A i \in 1..MaxPending, k \in 0..2 :
       ChoiceResolve(i, k) =>
          \A j \in 1..Len(fx') :
             fx'[j].op = "respond" => fx'[j].n = prompts[i].from]_vars

\* C28: while waitingForCommitConfirmation is true, resolving or dismissing a
\* modal or quick pick that an earlier prompt opened writes nothing to the
\* subprocess: only the operator's confirm or cancel action answers.
C28_OnlyConfirmOrCancelAnswersWhileWaiting ==
  [][\A i \in 1..MaxPending :
       /\ \A ans \in {"yes", "no", "dismiss"} :
            (waitingForCommitConfirmation /\ ConfirmResolve(i, ans)) =>
               Responds(fx') = <<>>
       /\ \A k \in 0..2 :
            (waitingForCommitConfirmation /\ ChoiceResolve(i, k)) =>
               Responds(fx') = <<>>]_vars

\* ------------------------------------------------------------ after the manual commit
\* C29: the status a finished manual commit has set stays: right after the
\* manual commit succeeded, no cancelled event, error event or close of the
\* subprocess sets the status to error or notifies the operator, and right
\* after it failed, no close with exit code 0 sets the status to success.
C29_ManualCommitStatusIsFinal ==
  [][\A c \in Ids :
       LET ended(s) == \E k \in 1..Len(fx) : fx[k].op = "notify" /\ fx[k].s = s
       IN /\ (ended("info:manualCommitted") /\ panel.status = "success"
                /\ \/ \E reason \in OptTexts : ToolCancelled(c, reason)
                   \/ ToolError(c)
                   \/ \E code \in ExitCodes : ChildClose(c, code)) =>
               /\ panel'.status = "success"
               /\ Notifies(fx') = <<>>
          /\ (ended("error:gitFailed") /\ panel.status = "error" /\ ChildClose(c, "0")) =>
               panel'.status = "error"]_vars

\* C30: a reset armed by a terminal success does not reach a later workflow:
\* when the timer fires while a workflow that has seen no terminal event is
\* attached and running, the Display of that workflow is left as it is.
C30_PendingResetSparesLaterWorkflow ==
  [][(TimerFire /\ runner # NoRef /\ isRunning(runner) /\ ~sawTerminalEvent) =>
        /\ panel' = panel
        /\ fx' = <<>>]_vars

\* ------------------------------------------------------------ start during a manual commit
\* C31: while a manual git commit launched by a decline is still running,
\* startCommit begins no new workflow, also when the subprocess of the
\* declined tool has closed and its runner is released: with every tool
\* subprocess closed, a start is accepted only when no manual commit runs.
C31_NoStartWhileManualCommitRuns ==
  [][\A throws \in BOOLEAN :
       (StartAccepted(throws) /\ NotClosed = {}) => gits = <<>>]_vars

====
